---- MODULE Spec2Model ----
(***************************************************************************)
(* Model of the ESP8266 OTA updater (fw/platforms/esp8266/src/             *)
(* esp_updater.c): the update context, the per-file begin/data/end         *)
(* protocol, the flash erase/write path, checksum verification and the     *)
(* rBoot configuration transitions finalize / commit / revert.             *)
(*                                                                         *)
(* Flash is kept as a sorted partition of the address space into extents   *)
(* <<lo, hi, kind>>; a kind is <<"junk", "", 0>> (content that matches no  *)
(* digest), <<"FF", "", 0>> (erased) or <<"file", f, base>> (the byte at   *)
(* address a is byte a - base of file f).                                  *)
(***************************************************************************)
EXTENDS Integers, Sequences, FiniteSets, TLC

\* ---------------------------------------------------------------- constants
FW_SLOT_SIZE == 1048576
UPDATER_MIN_BLOCK_SIZE == 2048
FLASH_SECTOR_SIZE == 4096
FLASH_ERASE_BLOCK_SIZE == 65536

\* Number of update contexts created.
MaxAttempts == 2

Slots == {0, 1}
FlashSize == 2 * FW_SLOT_SIZE

Min(a, b) == IF a < b THEN a ELSE b
Max(a, b) == IF a > b THEN a ELSE b

\* ------------------------------------------------------------ flash content
Junk == <<"junk", "", 0>>
Erased == <<"FF", "", 0>>
FileBytes(f, base) == <<"file", f, base>>

\* Merge neighbouring extents of equal kind, so that equal flash contents are
\* equal values.
RECURSIVE Normalize(_)
Normalize(s) ==
  IF Len(s) <= 1 THEN s
  ELSE LET r == Normalize(Tail(s))
       IN IF s[1][3] = r[1][3]
            THEN <<<<s[1][1], r[1][2], s[1][3]>>>> \o Tail(r)
            ELSE <<s[1]>> \o r

\* spi_flash_write on NOR flash can only clear bits: a byte holds the written
\* data w where the flash was erased or already held the same byte, keeps its
\* value where 0xFF is written, and matches nothing otherwise.
NorWrite(w, k) ==
  IF w = Erased THEN k
  ELSE IF k = Erased \/ k = w THEN w
  ELSE Junk

\* The flash after the range [lo, hi) received new content: g is <<"erase">> or
\* the kind of the written data.
RECURSIVE Splice(_, _, _, _)
Splice(s, lo, hi, g) ==
  IF s = <<>> THEN <<>>
  ELSE LET e == s[1]
           a == Max(e[1], lo)
           b == Min(e[2], hi)
           left == IF e[1] < Min(lo, e[2]) THEN <<<<e[1], Min(lo, e[2]), e[3]>>>> ELSE <<>>
           mid == IF a < b
                    THEN <<<<a, b, IF g = <<"erase">> THEN Erased ELSE NorWrite(g, e[3])>>>>
                    ELSE <<>>
           right == IF Max(hi, e[1]) < e[2] THEN <<<<Max(hi, e[1]), e[2], e[3]>>>> ELSE <<>>
       IN left \o mid \o right \o Splice(Tail(s), lo, hi, g)

\* The content of [addr, addr + len), relative to addr: what a read returns.
RECURSIVE Clip(_, _, _)
Clip(s, addr, len) ==
  IF s = <<>> THEN <<>>
  ELSE LET e == s[1]
           a == Max(e[1], addr)
           b == Min(e[2], addr + len)
           k == IF e[3][1] = "file" THEN FileBytes(e[3][2], e[3][3] - addr) ELSE e[3]
       IN (IF a < b THEN <<<<a - addr, b - addr, k>>>> ELSE <<>>)
            \o Clip(Tail(s), addr, len)

\* SPIEraseBlock / spi_flash_erase_sector: every byte of the range reads 0xFF.
FlashErase(s, lo, hi) == Normalize(Splice(s, lo, hi, <<"erase">>))

\* spi_flash_write of bytes [off, off + n) of file f at addr.
FlashWriteFile(s, addr, n, f, off) ==
  Normalize(Splice(s, addr, addr + n, FileBytes(f, addr - off)))

\* spi_flash_write of n bytes 0xFF.
FlashWriteFF(s, addr, n) == Normalize(Splice(s, addr, addr + n, Erased))

\* ------------------------------------------------------------------ digests
\* A hex digest is the hashed content and the letter case of its hex digits;
\* SHA-1 is taken to be injective on the contents the model can produce.
Sha1Hex(content, upper) == [d |-> content, upper |-> upper]

\* The digest a manifest states for the first n bytes of file f.
FileSha(f, n, upper) == Sha1Hex(<<<<0, n, FileBytes(f, 0)>>>>, upper)

\* char sha1_sum[40] after calloc: no hex digest at all.
ZeroSha == Sha1Hex(<<<<0, 0, Junk>>>>, FALSE)

\* bin2hex renders the digest in lower case.
bin2hex(content) == Sha1Hex(content, FALSE)

ToLower(h) == [h EXCEPT !.upper = FALSE]

\* strncasecmp(a, b, SHA1SUM_LEN): 0 when the two agree up to letter case.
strncasecmp(a, b) == IF ToLower(a) = ToLower(b) THEN 0 ELSE 1

\* verify_checksum with the comparison's result dropped.
verify_checksum_unchecked(fl, addr, len, provided_checksum, read_ok) ==
  IF len # 0 /\ ~read_ok THEN -1 ELSE 1

\* verify_checksum: -1 when a flash read fails (only a non-empty range is read)
\* or the digests differ, 1 when they agree.
verify_checksum(fl, addr, len, provided_checksum, read_ok) ==
  IF len # 0 /\ ~read_ok THEN -1
  ELSE IF strncasecmp(bin2hex(Clip(fl, addr, len)), provided_checksum) # 0 THEN -1
  ELSE 1

\* ----------------------------------------------------------------- manifest
FwName == "fw.bin"
FsName == "fs.bin"
FileNames == {FwName, FsName, "manifest.json"}

\* A part token of the manifest; sha.len = 0 is has_sha = FALSE, src.len = 0
\* (or a name that does not fit file_name[50]) is src = "".
PartToken(rel, sha, src, size) ==
  [addr |-> rel, has_sha |-> TRUE, cs_sha1 |-> sha, src |-> src, size |-> size]
NoShaToken(rel, src, size) ==
  [addr |-> rel, has_sha |-> FALSE, cs_sha1 |-> ZeroSha, src |-> src, size |-> size]

\* Manifest-relative addresses of the two images.
FwRel == 0 * FLASH_SECTOR_SIZE
FsRel == 2 * FLASH_SECTOR_SIZE

\* A firmware of one erase block and 8 bytes, and the first sector behind it.
BigFwSize == FLASH_ERASE_BLOCK_SIZE + 8
BigFsRel == FLASH_ERASE_BLOCK_SIZE + FLASH_SECTOR_SIZE

\* An update package: the manifest's part tokens and the declared sizes of
\* the files the caller streams.
Package(fw, fs, fw_size, fs_size) ==
  [fw |-> fw, fs |-> fs,
   sizes |-> [n \in FileNames |-> IF n = FwName THEN fw_size
                                  ELSE IF n = FsName THEN fs_size ELSE 6]]

GoodToken(rel, name, n, upper) == PartToken(rel, FileSha(name, n, upper), name, n)

Packages ==
  { \* both images a multiple of 4 bytes long
    Package(GoodToken(FwRel, FwName, 8, FALSE), GoodToken(FsRel, FsName, 8, FALSE), 8, 8),
    \* an image longer than the minimum block, upper-case digest; a filesystem
    \* whose size is no multiple of 4
    Package(GoodToken(FwRel, FwName, 2056, TRUE), GoodToken(FsRel, FsName, 6, FALSE),
            2056, 6),
    \* the firmware file does not have the digest the manifest states
    Package(PartToken(FwRel, FileSha("corrupt", 8, FALSE), FwName, 8),
            GoodToken(FsRel, FsName, 8, FALSE), 8, 8),
    \* the manifest's size field disagrees with the streamed firmware file
    Package(PartToken(FwRel, FileSha(FwName, 8, FALSE), FwName, 6),
            GoodToken(FsRel, FsName, 8, FALSE), 8, 8),
    \* cs_sha1 missing from fw, src missing from fs
    Package(NoShaToken(FwRel, FwName, 8), GoodToken(FsRel, FsName, 8, FALSE), 8, 8),
    Package(GoodToken(FwRel, FwName, 8, FALSE),
            PartToken(FsRel, FileSha(FsName, 8, FALSE), "", 8), 8, 8),
    \* a firmware longer than an erase block, the filesystem behind it
    Package(GoodToken(FwRel, FwName, BigFwSize, FALSE),
            GoodToken(BigFsRel, FsName, 8, FALSE), BigFwSize, 8) }

\* --------------------------------------------------------------------- state
ZeroPart ==
  [addr |-> 0, size |-> 0, done |-> 0, sha1_sum |-> ZeroSha, file_name |-> "",
   fi_size |-> 0]

\* calloc(1, sizeof(struct mgos_upd_ctx))
ZeroCtx ==
  [fw_part |-> ZeroPart, fs_part |-> ZeroPart, fs_dir_part |-> ZeroPart,
   slot_to_write |-> 0, current_part |-> "NULL", current_write_address |-> 0,
   erased_till |-> 0, status_msg |-> "NULL"]

NoFile == [name |-> "", size |-> 0, processed |-> 0]

\* What the last operation was called with and did: its file name argument,
\* whether its chunk reached the end of the file, its result, whether a call
\* it made to malloc, to the flash driver or to rboot_set_config failed, its
\* rboot_set_config calls, the ranges it erased and its flash writes, the
\* length of its chunk and whether it took the minimum-block early return.
NoOp ==
  [op |-> "none", name |-> "", final |-> FALSE, ret |-> 0, act |-> "",
   io_failed |-> FALSE, saved |-> 0, erases |-> <<>>, writes |-> <<>>,
   len |-> 0, deferred |-> FALSE]

VARIABLES
  stored,      \* the rBoot configuration in its flash sector
  cfg,         \* get_rboot_config's static copy
  cfg_loaded,  \* cfg # NULL
  running,     \* the slot whose firmware executes
  flash,       \* the two firmware slots
  ctx,         \* struct mgos_upd_ctx of the attempt
  pkg,         \* the update package the caller delivers, attempt after attempt
  pc,          \* the caller's place in the update protocol
  fi,          \* struct mgos_upd_file_info of the file being streamed
  all_offered, \* the caller has offered the file's last byte
  wsum,        \* bytes handed to spi_flash_write for the file being streamed
  attempts,    \* update contexts created so far
  hist,        \* history of the boot configuration (see HistNext)
  last         \* the last operation, its result and its flash/store traffic

vars == <<stored, cfg, cfg_loaded, running, flash, ctx, pkg, pc, fi, all_offered, wsum,
          attempts, hist, last>>

SlotBase(s) == s * FW_SLOT_SIZE

\* rboot_config as the boot loader leaves it with rom r selected.
BootCfg(r, p, ba) ==
  [current_rom |-> r, previous_rom |-> p,
   roms |-> [s \in Slots |-> SlotBase(s) + FwRel],
   roms_sizes |-> [s \in Slots |-> 8],
   fs_addresses |-> [s \in Slots |-> SlotBase(s) + FsRel],
   fs_sizes |-> [s \in Slots |-> 8],
   is_first_boot |-> 0, fw_updated |-> 0, user_flags |-> 0, boot_attempts |-> ba]

\* The flash of a device whose inactive slot was erased and written by an
\* earlier update with 8-byte images; the rest holds anything.
InitFlash(r) ==
  LET o == SlotBase(1 - r)
      blank == <<<<0, FlashSize, Junk>>>>
  IN FlashWriteFile(
       FlashWriteFile(FlashErase(blank, o, o + 3 * FLASH_SECTOR_SIZE),
                      o + FwRel, 8, FwName, 0),
       o + FsRel, 8, FsName, 0)

Init ==
  /\ \E r \in Slots : stored = BootCfg(r, 1 - r, 1)
  /\ cfg = stored
  /\ cfg_loaded = FALSE
  /\ running = stored.current_rom
  /\ flash = InitFlash(stored.current_rom)
  /\ ctx = ZeroCtx
  /\ pkg \in Packages
  /\ pc = "none"
  /\ fi = NoFile
  /\ all_offered = FALSE
  /\ wsum = 0
  /\ attempts = 0
  /\ hist = [lkg |-> stored.current_rom, permanent |-> FALSE, erased |-> <<>>]
  /\ last = NoOp

\* --------------------------------------------------------------- operations
Result(op, ret) == [NoOp EXCEPT !.op = op, !.ret = ret]

\* get_rboot_config: the static copy, read from the store on first use.
get_rboot_config == IF cfg_loaded THEN cfg ELSE stored

\* A reset: RAM is lost, the boot loader starts the rom the stored
\* configuration selects.
ResetEffect ==
  /\ running' = stored.current_rom
  /\ cfg' = stored
  /\ cfg_loaded' = FALSE
  /\ ctx' = ZeroCtx
  /\ UNCHANGED pkg
  /\ pc' = "none"
  /\ fi' = NoFile
  /\ all_offered' = FALSE
  /\ wsum' = 0
  /\ last' = Result("reset", 0)
  /\ UNCHANGED <<stored, flash, attempts>>

Reset == ResetEffect

mgos_upd_ctx_create ==
  /\ pc = "none"
  /\ attempts < MaxAttempts
  /\ attempts' = attempts + 1
  /\ ctx' = ZeroCtx
  /\ UNCHANGED pkg
  /\ pc' = "created"
  /\ last' = Result("ctx_create", 0)
  /\ UNCHANGED <<stored, cfg, cfg_loaded, running, flash, fi, all_offered, wsum>>

mgos_upd_ctx_free ==
  /\ pc # "none"
  /\ ctx' = ZeroCtx
  /\ UNCHANGED pkg
  /\ pc' = "none"
  /\ fi' = NoFile
  /\ all_offered' = FALSE
  /\ wsum' = 0
  /\ last' = Result("ctx_free", 0)
  /\ UNCHANGED <<stored, cfg, cfg_loaded, running, flash, pkg, attempts>>

\* fill_file_part_info with the manifest's address taken as absolute.
fill_file_part_info_relative(c, tok, pi) ==
  LET p1 == [pi EXCEPT !.size = tok.size, !.addr = tok.addr]
      p2 == [p1 EXCEPT !.sha1_sum = tok.cs_sha1]
  IN IF ~tok.has_sha THEN [part |-> p1, ret |-> -1]
     ELSE IF tok.src = "" THEN [part |-> p2, ret |-> -1]
     ELSE [part |-> [p2 EXCEPT !.file_name = tok.src], ret |-> 1]

\* fill_file_part_info: the part after the call and the result. The address
\* and the size are stored before the token is validated, the digest before
\* the source name is.
fill_file_part_info(c, tok, pi) ==
  LET p1 == [pi EXCEPT !.size = tok.size,
                       !.addr = tok.addr + c.slot_to_write * FW_SLOT_SIZE]
      p2 == [p1 EXCEPT !.sha1_sum = tok.cs_sha1]
  IN IF ~tok.has_sha THEN [part |-> p1, ret |-> -1]
     ELSE IF tok.src = "" THEN [part |-> p2, ret |-> -1]
     ELSE [part |-> [p2 EXCEPT !.file_name = tok.src], ret |-> 1]

mgos_upd_begin ==
  /\ pc = "created"
  /\ \E parts \in {pkg}, oom \in BOOLEAN :
       IF ~cfg_loaded /\ oom
         THEN /\ ctx' = [ctx EXCEPT !.status_msg = "Failed to get rBoot config"]
              /\ pc' = "failed"
              /\ last' = [Result("begin", -1) EXCEPT !.io_failed = TRUE]
              /\ UNCHANGED <<cfg, cfg_loaded>>
         ELSE LET c0 == get_rboot_config
                  c1 == [ctx EXCEPT !.slot_to_write = IF c0.current_rom = 0 THEN 1 ELSE 0]
                  fw == fill_file_part_info(c1, parts.fw, c1.fw_part)
                  c2 == [c1 EXCEPT !.fw_part = fw.part]
                  fs == fill_file_part_info(c2, parts.fs, c2.fs_part)
                  c3 == [c2 EXCEPT !.fs_part = fs.part]
              IN /\ cfg' = c0
                 /\ cfg_loaded' = TRUE
                 /\ IF ~(fw.ret >= 0)
                      THEN /\ ctx' = [c2 EXCEPT !.status_msg = "Firmware part is missing"]
                           /\ pc' = "failed"
                           /\ last' = Result("begin", -1)
                      ELSE IF fs.ret < 0
                        THEN /\ ctx' = [c3 EXCEPT !.status_msg = "FS part is missing"]
                             /\ pc' = "failed"
                             /\ last' = Result("begin", -1)
                        ELSE /\ ctx' = c3
                             /\ pc' = "idle"
                             /\ last' = Result("begin", 1)
  /\ UNCHANGED <<stored, running, flash, pkg, fi, all_offered, wsum, attempts>>

\* prepare_to_write that leaves erased_till where the last part left it.
prepare_to_write_stale_erased_till(c, fl, size, pn, read_ok) ==
  LET part == c[pn]
      c1 == [c EXCEPT !.current_part = pn,
                      ![pn].fi_size = size,
                      !.current_write_address = part.addr]
  IN IF part.done # 0 THEN [ctx |-> c, ret |-> 0]
     ELSE IF verify_checksum(fl, part.addr, size, part.sha1_sum, read_ok) = 1
       THEN [ctx |-> [c1 EXCEPT ![pn].done = 1], ret |-> 0]
     ELSE [ctx |-> c1, ret |-> 1]

\* prepare_to_write without the early return for a part that is done.
prepare_to_write_no_done_check(c, fl, size, pn, read_ok) ==
  LET part == c[pn]
      c1 == [c EXCEPT !.current_part = pn,
                      ![pn].fi_size = size,
                      !.current_write_address = part.addr,
                      !.erased_till = part.addr]
  IN IF verify_checksum(fl, part.addr, size, part.sha1_sum, read_ok) = 1
       THEN [ctx |-> [c1 EXCEPT ![pn].done = 1], ret |-> 0]
     ELSE [ctx |-> c1, ret |-> 1]

\* prepare_to_write on ctx part pn ("fw_part" or "fs_part"): the context
\* after the call and the result.
prepare_to_write(c, fl, size, pn, read_ok) ==
  LET part == c[pn]
      c1 == [c EXCEPT !.current_part = pn,
                      ![pn].fi_size = size,
                      !.current_write_address = part.addr,
                      !.erased_till = part.addr]
  IN IF part.done # 0 THEN [ctx |-> c, ret |-> 0]
     ELSE IF verify_checksum(fl, part.addr, size, part.sha1_sum, read_ok) = 1
       THEN [ctx |-> [c1 EXCEPT ![pn].done = 1], ret |-> 0]
     ELSE [ctx |-> c1, ret |-> 1]

\* enum mgos_upd_file_action
MGOS_UPDATER_SKIP_FILE == "SKIP"
MGOS_UPDATER_PROCESS_FILE == "PROCESS"
MGOS_UPDATER_ABORT == "ABORT"

\* The part mgos_upd_file_begin routes a file name to.
PartOfFile(c, name) ==
  IF name = c.fw_part.file_name THEN "fw_part"
  ELSE IF name = c.fs_part.file_name THEN "fs_part"
  ELSE "NULL"

mgos_upd_file_begin ==
  /\ pc = "idle"
  /\ \E name \in FileNames, read_ok \in BOOLEAN :
       LET size == pkg.sizes[name]
           c0 == [ctx EXCEPT !.status_msg = "Failed to update file"]
           pn == PartOfFile(c0, name)
           r == IF pn = "NULL" THEN [ctx |-> c0, ret |-> 0]
                ELSE prepare_to_write(c0, flash, size, pn, read_ok)
           act == IF pn = "NULL" THEN MGOS_UPDATER_SKIP_FILE
                  ELSE IF r.ret < 0 THEN MGOS_UPDATER_ABORT
                  ELSE IF r.ret = 0 THEN MGOS_UPDATER_SKIP_FILE
                  ELSE MGOS_UPDATER_PROCESS_FILE
       IN /\ ctx' = r.ctx
          /\ last' = [Result("file_begin", r.ret)
                        EXCEPT !.act = act, !.name = name,
                               !.io_failed = (pn # "NULL" /\ c0[pn].done = 0
                                              /\ size # 0 /\ ~read_ok)]
          /\ IF act = MGOS_UPDATER_PROCESS_FILE
               THEN /\ pc' = "file"
                    /\ fi' = [name |-> name, size |-> size, processed |-> 0]
               ELSE /\ pc' = IF act = MGOS_UPDATER_ABORT THEN "failed" ELSE "idle"
                    /\ fi' = NoFile
  /\ all_offered' = FALSE
  /\ wsum' = 0
  /\ UNCHANGED <<stored, cfg, cfg_loaded, running, flash, pkg, attempts>>

\* uint32_t arithmetic. Sums stay far below 2^32 on a 2 MiB flash; a negative
\* difference wraps to a value above every flash address and every file size,
\* which is all the code compares it with.
U32(x) == IF x < 0 THEN 2147483647 ELSE x

\* The loop test with the chunk's length forgotten.
needs_erase_ignoring_length(c, bytes_to_write) ==
  c.current_write_address > c.erased_till

\* while (ctx->current_write_address + bytes_to_write > ctx->erased_till)
needs_erase(c, bytes_to_write) ==
  U32(c.current_write_address + bytes_to_write) > c.erased_till

\* The choice of a block erase by alignment alone.
use_block_erase_when_aligned(c) == (c.erased_till % FLASH_ERASE_BLOCK_SIZE) = 0

\* The choice of a block erase while the part has not ended, a whole block of
\* it left or not.
use_block_erase_part_not_ended(c) ==
  /\ (c.erased_till % FLASH_ERASE_BLOCK_SIZE) = 0
  /\ U32(c[c.current_part].addr + c[c.current_part].fi_size) >= c.erased_till

\* The test that chooses SPIEraseBlock over spi_flash_erase_sector.
use_block_erase(c) ==
  /\ (c.erased_till % FLASH_ERASE_BLOCK_SIZE) = 0
  /\ U32(c[c.current_part].addr + c[c.current_part].fi_size)
       >= U32(c.erased_till + FLASH_ERASE_BLOCK_SIZE)

\* The range SPIEraseBlock(block_no) or spi_flash_erase_sector(sec_no) erases.
erase_range(c) ==
  LET sec_no == c.erased_till \div FLASH_SECTOR_SIZE
      block_no == c.erased_till \div FLASH_ERASE_BLOCK_SIZE
  IN IF use_block_erase(c)
       THEN <<block_no * FLASH_ERASE_BLOCK_SIZE, (block_no + 1) * FLASH_ERASE_BLOCK_SIZE>>
       ELSE <<sec_no * FLASH_SECTOR_SIZE, (sec_no + 1) * FLASH_SECTOR_SIZE>>

\* erased_till advanced by one sector whatever was erased.
erased_till_after_by_sector(c) ==
  ((c.erased_till \div FLASH_SECTOR_SIZE) + 1) * FLASH_SECTOR_SIZE

\* erased_till after the erase: the end of the block or sector.
erased_till_after(c) ==
  IF use_block_erase(c)
    THEN ((c.erased_till \div FLASH_ERASE_BLOCK_SIZE) + 1) * FLASH_ERASE_BLOCK_SIZE
    ELSE ((c.erased_till \div FLASH_SECTOR_SIZE) + 1) * FLASH_SECTOR_SIZE

\* prepare_flash: erases until current_write_address + bytes_to_write fits
\* below erased_till. fail_at is the erase that fails (0: none); done counts
\* the erases issued so far. Yields the flash, erased_till, the erased ranges
\* and the result.
RECURSIVE prepare_flash(_, _, _, _, _, _)
prepare_flash(c, fl, bytes_to_write, fail_at, done, erases) ==
  IF ~needs_erase(c, bytes_to_write)
    THEN [flash |-> fl, erased_till |-> c.erased_till, erases |-> erases, ret |-> 1]
  ELSE
    LET r == erase_range(c)
    IN IF fail_at = done + 1
         THEN [flash |-> fl, erased_till |-> c.erased_till, erases |-> erases, ret |-> -1]
         ELSE prepare_flash([c EXCEPT !.erased_till = erased_till_after(c)],
                            FlashErase(fl, r[1], r[2]),
                            bytes_to_write, fail_at, done + 1, Append(erases, r))

\* data.len & -4
AlignDown4(n) == n - (n % 4)

\* The early return with the bytes that remain forgotten.
below_min_block_any_remaining(f, len) == len < UPDATER_MIN_BLOCK_SIZE

\* data.len < UPDATER_MIN_BLOCK_SIZE &&
\* fi->size - fi->processed > UPDATER_MIN_BLOCK_SIZE
below_min_block(f, len) ==
  /\ len < UPDATER_MIN_BLOCK_SIZE
  /\ U32(f.size - f.processed) > UPDATER_MIN_BLOCK_SIZE

\* The failures of the flash driver during one data call.
Faults == {"none", "erase1", "erase2", "write1", "write2"}
FailAt(fault) == IF fault = "erase1" THEN 1 ELSE IF fault = "erase2" THEN 2 ELSE 0

\* The driver calls a data call of len bytes makes, thus which can fail.
FaultPossible(c, fl, f, len, fault) ==
  LET deferred == below_min_block(f, len)
      n_erases == Len(prepare_flash(c, fl, len, 0, 0, <<>>).erases)
      rest == U32(f.size - f.processed - AlignDown4(len))
  IN CASE fault = "none" -> TRUE
       [] fault = "erase1" -> ~deferred /\ n_erases >= 1
       [] fault = "erase2" -> ~deferred /\ n_erases >= 2
       [] fault = "write1" -> ~deferred /\ AlignDown4(len) > 0
       [] fault = "write2" -> ~deferred /\ rest > 0 /\ rest < 4
                                /\ len - AlignDown4(len) >= 4

\* Chunk lengths the caller hands over, besides everything that remains: a few
\* bytes, the minimum block and two bytes more; for a file of several blocks,
\* two bytes more than half the file.
ChunkLens(f) ==
  {3, 4, 6} \cup (IF f.size <= 2 * UPDATER_MIN_BLOCK_SIZE
                    THEN {UPDATER_MIN_BLOCK_SIZE, UPDATER_MIN_BLOCK_SIZE + 2}
                    ELSE {(f.size \div 2) + 2})

mgos_upd_file_data ==
  /\ pc = "file"
  /\ \E len \in ChunkLens(fi) \cup {fi.size - fi.processed}, fault \in Faults :
       /\ len >= 1
       /\ len <= fi.size - fi.processed
       /\ FaultPossible(ctx, flash, fi, len, fault)
       /\ all_offered' = IF fi.processed + len = fi.size THEN TRUE ELSE all_offered
       /\ IF below_min_block(fi, len)
            THEN /\ last' = [Result("file_data", 0)
                               EXCEPT !.name = fi.name, !.len = len, !.deferred = TRUE]
                 /\ UNCHANGED <<ctx, flash, fi, pc, wsum>>
            ELSE
              LET Res(ret) == [Result("file_data", ret)
                                 EXCEPT !.name = fi.name, !.len = len,
                                        !.io_failed = (fault # "none"),
                                        !.final = (fi.processed + len = fi.size)]
                  pf == prepare_flash(ctx, flash, len, FailAt(fault), 0, <<>>)
                  c1 == [ctx EXCEPT !.erased_till = pf.erased_till]
                  bytes_to_write_aligned == AlignDown4(len)
                  w1 == bytes_to_write_aligned > 0
                  w1_ok == fault # "write1"
                  fl1 == IF w1 /\ w1_ok
                           THEN FlashWriteFile(pf.flash, c1.current_write_address,
                                               bytes_to_write_aligned, fi.name,
                                               fi.processed)
                           ELSE pf.flash
                  \* data.len, data.p and current_write_address after the
                  \* aligned write
                  data_len == IF w1 THEN len - bytes_to_write_aligned ELSE len
                  off == IF w1 THEN fi.processed + bytes_to_write_aligned
                         ELSE fi.processed
                  cwa == IF w1 THEN U32(c1.current_write_address + bytes_to_write_aligned)
                         ELSE c1.current_write_address
                  c2 == [c1 EXCEPT !.current_write_address = cwa]
                  bp1 == IF w1 THEN bytes_to_write_aligned ELSE 0
                  rest == U32(fi.size - fi.processed - bytes_to_write_aligned)
                  w2 == rest > 0 /\ rest < 4 /\ data_len >= 4
                  w2_ok == fault # "write2"
                  fl2 == IF w2 /\ w2_ok
                           THEN FlashWriteFF(
                                  FlashWriteFile(fl1, cwa, rest, fi.name, off),
                                  cwa + rest, 4 - rest)
                           ELSE fl1
                  wr1 == IF w1 /\ w1_ok
                           THEN <<[addr |-> c1.current_write_address,
                                   n |-> bytes_to_write_aligned, pad |-> 0]>>
                           ELSE <<>>
                  wr2 == IF w2 /\ w2_ok
                           THEN <<[addr |-> cwa, n |-> 4, pad |-> 4 - rest]>>
                           ELSE <<>>
              IN IF pf.ret < 0
                   THEN /\ ctx' = [c1 EXCEPT !.status_msg = "Failed to erase flash"]
                        /\ flash' = pf.flash
                        /\ last' = [Res(-1) EXCEPT !.erases = pf.erases]
                        /\ pc' = "failed"
                        /\ UNCHANGED <<fi, wsum>>
                 ELSE IF w1 /\ ~w1_ok
                   THEN /\ ctx' = [c1 EXCEPT !.status_msg = "Failed to write to flash"]
                        /\ flash' = pf.flash
                        /\ last' = [Res(-1) EXCEPT !.erases = pf.erases]
                        /\ pc' = "failed"
                        /\ UNCHANGED <<fi, wsum>>
                 ELSE IF w2 /\ ~w2_ok
                   THEN /\ ctx' = [c2 EXCEPT !.status_msg = "Failed to write to flash"]
                        /\ flash' = fl1
                        /\ last' = [Res(-1) EXCEPT !.erases = pf.erases,
                                                                   !.writes = wr1]
                        /\ pc' = "failed"
                        /\ wsum' = wsum + bp1
                        /\ UNCHANGED fi
                 ELSE LET bytes_processed == IF w2 THEN bp1 + rest ELSE bp1
                      IN /\ ctx' = c2
                         /\ flash' = fl2
                         /\ last' = [Res(bytes_processed)
                                       EXCEPT !.erases = pf.erases, !.writes = wr1 \o wr2]
                         /\ fi' = [fi EXCEPT !.processed = fi.processed + bytes_processed]
                         /\ wsum' = wsum + bp1 + (IF w2 THEN 4 ELSE 0)
                         /\ pc' = "file"
  /\ UNCHANGED <<stored, cfg, cfg_loaded, running, pkg, attempts>>

mgos_upd_file_end ==
  /\ pc = "file"
  /\ all_offered
  /\ \E read_ok \in BOOLEAN, ndebug \in BOOLEAN :
       LET tail_len == fi.size - fi.processed
           pn == ctx.current_part
       IN IF tail_len # 0 /\ ~ndebug
            THEN \* assert(tail.len == 0) fails: abort(), the device resets
                 ResetEffect
            ELSE /\ IF verify_checksum(flash, ctx[pn].addr, fi.size, ctx[pn].sha1_sum,
                                       read_ok) < 0
                      THEN /\ ctx' = [ctx EXCEPT !.status_msg = "Invalid checksum"]
                           /\ last' = [Result("file_end", -1)
                                         EXCEPT !.io_failed = (fi.size # 0 /\ ~read_ok)]
                           /\ pc' = "failed"
                      ELSE /\ ctx' = [ctx EXCEPT ![pn].done = 1]
                           /\ last' = Result("file_end", tail_len)
                           /\ pc' = "idle"
                 /\ fi' = NoFile
                 /\ all_offered' = FALSE
                 /\ wsum' = 0
                 /\ UNCHANGED <<stored, cfg, cfg_loaded, running, flash, pkg, attempts>>

\* rboot_set_config: the stored configuration after the write was attempted.
rboot_set_config(c, save_ok) == IF save_ok THEN c ELSE stored

\* The checks with the filesystem parts forgotten.
finalize_check_fw_only(c) == IF c.fw_part.done = 0 THEN -1 ELSE 0

\* mgos_upd_finalize's checks of the parts: 0 when the switch may go ahead.
finalize_check(c) ==
  IF c.fw_part.done = 0 THEN -1
  ELSE IF c.fs_part.done = 0 /\ c.fs_dir_part.done = 0 THEN -2
  ELSE 0

\* The configuration mgos_upd_finalize writes when the update went to the
\* slot that is already current.
keep_slot(c0) == [c0 EXCEPT !.user_flags = 1]

\* The switch with previous_rom assigned after current_rom.
switch_slot_prev_late(c0, c) ==
  LET cur == c.slot_to_write
  IN [c0 EXCEPT !.previous_rom = cur,
                !.current_rom = cur,
                !.fs_addresses[cur] = c.fs_part.addr,
                !.fs_sizes[cur] = c.fs_part.fi_size,
                !.roms[cur] = c.fw_part.addr,
                !.roms_sizes[cur] = c.fw_part.fi_size,
                !.is_first_boot = 1,
                !.fw_updated = 1,
                !.user_flags = 1,
                !.boot_attempts = 0]

\* The configuration mgos_upd_finalize writes when it switches slots.
switch_slot(c0, c) ==
  LET cur == c.slot_to_write
  IN [c0 EXCEPT !.previous_rom = c0.current_rom,
                !.current_rom = cur,
                !.fs_addresses[cur] = c.fs_part.addr,
                !.fs_sizes[cur] = c.fs_part.fi_size,
                !.roms[cur] = c.fw_part.addr,
                !.roms_sizes[cur] = c.fw_part.fi_size,
                !.is_first_boot = 1,
                !.fw_updated = 1,
                !.user_flags = 1,
                !.boot_attempts = 0]

mgos_upd_finalize ==
  /\ pc \in {"created", "idle"}
  /\ \E save_ok \in BOOLEAN :
       IF finalize_check(ctx) = -1
         THEN /\ ctx' = [ctx EXCEPT !.status_msg = "Missing fw part"]
              /\ last' = Result("finalize", -1)
              /\ pc' = "failed"
              /\ UNCHANGED <<stored, cfg, cfg_loaded>>
       ELSE IF finalize_check(ctx) = -2
         THEN /\ ctx' = [ctx EXCEPT !.status_msg = "Missing fs part"]
              /\ last' = Result("finalize", -2)
              /\ pc' = "failed"
              /\ UNCHANGED <<stored, cfg, cfg_loaded>>
       ELSE
         LET c0 == get_rboot_config
             c1 == IF ctx.slot_to_write = c0.current_rom
                     THEN keep_slot(c0)
                     ELSE switch_slot(c0, ctx)
         IN /\ cfg' = c1
            /\ cfg_loaded' = TRUE
            /\ stored' = rboot_set_config(c1, save_ok)
            /\ last' = [Result("finalize", 1) EXCEPT !.saved = 1, !.io_failed = ~save_ok]
            /\ pc' = "finalized"
            /\ UNCHANGED ctx
  /\ UNCHANGED <<running, flash, pkg, fi, all_offered, wsum, attempts>>

\* Commit and revert without their early return.
never_returns_early(c0) == FALSE

\* if (!cfg->fw_updated) return;
no_update_pending(c0) == c0.fw_updated = 0

\* The commit with fw_updated left set.
boot_commit_cfg_keeps_fw_updated(c0) == [c0 EXCEPT !.is_first_boot = 0]

\* The configuration mgos_upd_boot_commit writes.
boot_commit_cfg(c0) == [c0 EXCEPT !.fw_updated = 0, !.is_first_boot = 0]

\* The revert as a swap of the two slot fields.
boot_revert_cfg_swaps(c0) ==
  [c0 EXCEPT !.current_rom = c0.previous_rom, !.previous_rom = c0.current_rom,
             !.fw_updated = 0, !.is_first_boot = 0]

\* The configuration mgos_upd_boot_revert writes.
boot_revert_cfg(c0) ==
  [c0 EXCEPT !.current_rom = c0.previous_rom, !.fw_updated = 0, !.is_first_boot = 0]

\* Commit and revert run from the boot path and from the caller's handlers,
\* between update sessions or between two files of one.
mgos_upd_boot_commit ==
  /\ pc \in {"none", "idle"}
  /\ \E save_ok \in BOOLEAN, oom \in BOOLEAN :
       IF ~cfg_loaded /\ oom
         THEN \* get_rboot_config returns NULL and is dereferenced: the device resets
              ResetEffect
         ELSE LET c0 == get_rboot_config
                  c1 == boot_commit_cfg(c0)
              IN /\ cfg_loaded' = TRUE
                 /\ IF no_update_pending(c0)
                      THEN /\ cfg' = c0
                           /\ last' = Result("commit", 0)
                           /\ UNCHANGED stored
                      ELSE /\ cfg' = c1
                           /\ stored' = rboot_set_config(c1, save_ok)
                           /\ last' = [Result("commit", 0)
                                         EXCEPT !.saved = 1, !.io_failed = ~save_ok]
                 /\ UNCHANGED <<running, flash, ctx, pkg, pc, fi, all_offered, wsum,
                                attempts>>

mgos_upd_boot_revert ==
  /\ pc \in {"none", "idle"}
  /\ \E save_ok \in BOOLEAN, oom \in BOOLEAN :
       IF ~cfg_loaded /\ oom
         THEN \* get_rboot_config returns NULL and is dereferenced: the device resets
              ResetEffect
         ELSE LET c0 == get_rboot_config
                  c1 == boot_revert_cfg(c0)
              IN /\ cfg_loaded' = TRUE
                 /\ IF no_update_pending(c0)
                      THEN /\ cfg' = c0
                           /\ last' = Result("revert", 0)
                           /\ UNCHANGED stored
                      ELSE /\ cfg' = c1
                           /\ stored' = rboot_set_config(c1, save_ok)
                           /\ last' = [Result("revert", 0)
                                         EXCEPT !.saved = 1, !.io_failed = ~save_ok]
                 /\ UNCHANGED <<running, flash, ctx, pkg, pc, fi, all_offered, wsum,
                                attempts>>

\* ------------------------------------------------------------------ history
\* Steps of the operations, for the properties below.
FinalizeStep == pc \in {"created", "idle"} /\ last'.op = "finalize"
SwitchStep == FinalizeStep /\ last'.ret = 1 /\ ctx.slot_to_write # get_rboot_config.current_rom
FileBeginStep == pc = "idle" /\ last'.op = "file_begin"
FileEndStep == pc = "file" /\ last'.op = "file_end"
BeginStep == pc = "created" /\ last'.op = "begin"
FileDataStep == pc = "file" /\ last'.op = "file_data"
CommitStep == pc \in {"none", "idle"} /\ last'.op = "commit"
RevertStep == pc \in {"none", "idle"} /\ last'.op = "revert"

\* hist.lkg: the slot the stored configuration selected when it last had no
\* update pending (the last known good slot). hist.permanent: a commit of a
\* pending update was written to the store and no finalize has switched slots
\* since. hist.erased: the ranges erased, in order, by the data calls of the
\* file being streamed.
HistNext ==
  hist' = [lkg |-> IF stored.fw_updated = 0 THEN stored.current_rom ELSE hist.lkg,
           permanent |-> IF CommitStep /\ get_rboot_config.fw_updated # 0
                              /\ ~last'.io_failed THEN TRUE
                         ELSE IF SwitchStep THEN FALSE
                         ELSE hist.permanent,
           erased |-> IF FileDataStep THEN hist.erased \o last'.erases ELSE <<>>]

Next ==
  \/ Reset /\ HistNext
  \/ mgos_upd_ctx_create /\ HistNext
  \/ mgos_upd_ctx_free /\ HistNext
  \/ mgos_upd_begin /\ HistNext
  \/ mgos_upd_file_begin /\ HistNext
  \/ mgos_upd_file_data /\ HistNext
  \/ mgos_upd_file_end /\ HistNext
  \/ mgos_upd_finalize /\ HistNext
  \/ mgos_upd_boot_commit /\ HistNext
  \/ mgos_upd_boot_revert /\ HistNext

Spec == Init /\ [][Next]_vars

\* ------------------------------------------------------------- properties
\* The configuration an operation starts from.
Eff == get_rboot_config

\* The flash at the part's address holds, over the streamed file's declared
\* size, content with the digest the manifest states.
Matches(fl, part) ==
  strncasecmp(bin2hex(Clip(fl, part.addr, part.fi_size)), part.sha1_sum) = 0

\* C1: a finalize with the firmware part done, the filesystem (or
\* filesystem-directory) part done and slot_to_write # current_rom switches
\* slots in one transaction: previous_rom is the old current_rom, current_rom
\* is slot_to_write, the new slot's rom and filesystem address and size are
\* those of the written parts, is_first_boot, fw_updated and user_flags are
\* set, boot_attempts is 0, the other slot's entries are untouched, one write
\* of the whole configuration is issued and the result is positive.
C1_FinalizeSwitchesSlots ==
  [][(/\ FinalizeStep
      /\ ctx.fw_part.done # 0
      /\ (ctx.fs_part.done # 0 \/ ctx.fs_dir_part.done # 0)
      /\ ctx.slot_to_write # Eff.current_rom)
     => LET new == ctx.slot_to_write
            other == 1 - new
        IN /\ cfg'.previous_rom = Eff.current_rom
           /\ cfg'.current_rom = new
           /\ cfg'.roms[new] = ctx.fw_part.addr
           /\ cfg'.roms_sizes[new] = ctx.fw_part.fi_size
           /\ cfg'.fs_addresses[new] = ctx.fs_part.addr
           /\ cfg'.fs_sizes[new] = ctx.fs_part.fi_size
           /\ cfg'.is_first_boot = 1
           /\ cfg'.fw_updated = 1
           /\ cfg'.user_flags = 1
           /\ cfg'.boot_attempts = 0
           /\ cfg'.roms[other] = Eff.roms[other]
           /\ cfg'.roms_sizes[other] = Eff.roms_sizes[other]
           /\ cfg'.fs_addresses[other] = Eff.fs_addresses[other]
           /\ cfg'.fs_sizes[other] = Eff.fs_sizes[other]
           /\ last'.ret > 0
           /\ last'.saved = 1
           /\ stored' \in {stored, cfg'}]_vars

\* A finalize has just switched to the slot the update was written to, and
\* the switch is in the store.
C1_Witness ==
  /\ last.op = "finalize"
  /\ last.ret = 1
  /\ ctx.fw_part.done = 1
  /\ ctx.fs_part.done = 1
  /\ cfg.current_rom = ctx.slot_to_write
  /\ cfg.previous_rom = 1 - ctx.slot_to_write
  /\ cfg.fw_updated = 1
  /\ stored = cfg

\* C2: a finalize while the firmware part is not done, or while neither the
\* filesystem nor the filesystem-directory part is done, returns a negative
\* result with a status of its own per missing part, and leaves the
\* configuration in memory and in the store as they were.
C2_FinalizeRefusesIncomplete ==
  [][(/\ FinalizeStep
      /\ (ctx.fw_part.done = 0 \/ (ctx.fs_part.done = 0 /\ ctx.fs_dir_part.done = 0)))
     => /\ last'.ret < 0
        /\ last'.ret = (IF ctx.fw_part.done = 0 THEN -1 ELSE -2)
        /\ ctx'.status_msg = (IF ctx.fw_part.done = 0 THEN "Missing fw part"
                              ELSE "Missing fs part")
        /\ last'.saved = 0
        /\ cfg' = cfg
        /\ cfg_loaded' = cfg_loaded
        /\ stored' = stored]_vars

\* A finalize has just failed for the filesystem part alone.
C2_Witness ==
  /\ last.op = "finalize"
  /\ last.ret = -2
  /\ ctx.fw_part.done = 1
  /\ ctx.fs_part.done = 0
  /\ ctx.status_msg = "Missing fs part"

\* C3: a revert executed while fw_updated is set makes current_rom the last
\* known good slot, the slot that was current when no update was pending, and
\* clears fw_updated and is_first_boot.
C3_RevertRestoresLastKnownGood ==
  [][(RevertStep /\ Eff.fw_updated # 0)
     => /\ cfg'.current_rom = hist.lkg
        /\ cfg'.fw_updated = 0
        /\ cfg'.is_first_boot = 0]_vars

C5_NothingPendingIsNoOp ==
  [][/\ ((CommitStep \/ RevertStep) /\ Eff.fw_updated = 0)
          => /\ cfg' = Eff
             /\ stored' = stored
             /\ last'.saved = 0
     /\ (CommitStep \/ RevertStep) => cfg'.fw_updated = 0]_vars

\* A revert with nothing pending has just returned: the slots differ still
\* and nothing was written.
C5_Witness ==
  /\ last.op = "revert"
  /\ last.saved = 0
  /\ cfg_loaded
  /\ cfg.fw_updated = 0
  /\ cfg.current_rom # cfg.previous_rom

\* Address a lies in slot s.
InSlot(a, s) == SlotBase(s) <= a /\ a < SlotBase(s) + FW_SLOT_SIZE

\* C6: the slot_to_write a begin chooses is never the slot whose firmware is
\* executing, and no erase and no write of an update touches that slot.
C6_NeverTargetsRunningSlot ==
  /\ (last.op = "begin" /\ last.ret = 1) => ctx.slot_to_write # running
  /\ \A i \in DOMAIN last.erases :
       ~InSlot(last.erases[i][1], running) /\ ~InSlot(last.erases[i][2] - 1, running)
  /\ \A i \in DOMAIN last.writes :
       /\ ~InSlot(last.writes[i].addr, running)
       /\ ~InSlot(last.writes[i].addr + last.writes[i].n - 1, running)

PartNames == {"fw_part", "fs_part", "fs_dir_part"}

\* C7: a part's done flag is set only by a file begin or a file end, for the
\* current part, when the flash over [addr, addr + size) has the expected
\* digest; a file end over content that does not have it fails with "Invalid
\* checksum" and leaves the part not done; and done is cleared only when the
\* attempt's context goes.
C7_DoneOnlyAfterMatch ==
  [][\A pn \in PartNames :
       /\ (ctx[pn].done = 0 /\ ctx'[pn].done # 0)
            => /\ last'.op \in {"file_begin", "file_end"}
               /\ ctx'.current_part = pn
               /\ flash' = flash
               /\ Matches(flash, ctx'[pn])
       /\ (FileEndStep /\ ctx.current_part = pn /\ ~Matches(flash, ctx[pn]))
            => /\ last'.ret = -1
               /\ ctx'.status_msg = "Invalid checksum"
               /\ ctx'[pn].done = 0
       /\ (ctx[pn].done # 0 /\ ctx'[pn].done = 0)
            => last'.op \in {"reset", "ctx_free"}]_vars

\* A file end has just marked the streamed part done.
C7_Witness ==
  /\ last.op = "file_end"
  /\ last.ret = 0
  /\ ctx.current_part # "NULL"
  /\ ctx[ctx.current_part].done = 1
  /\ Matches(flash, ctx[ctx.current_part])

\* C8: a begin for the file of a part that is done returns SKIP, erases and
\* writes nothing, and leaves current_part, current_write_address and
\* erased_till as they were.
C8_BeginOnDonePartSkips ==
  [][(/\ FileBeginStep
      /\ PartOfFile(ctx, last'.name) # "NULL"
      /\ ctx[PartOfFile(ctx, last'.name)].done # 0)
     => /\ last'.act = MGOS_UPDATER_SKIP_FILE
        /\ flash' = flash
        /\ last'.erases = <<>>
        /\ last'.writes = <<>>
        /\ ctx'.current_part = ctx.current_part
        /\ ctx'.current_write_address = ctx.current_write_address
        /\ ctx'.erased_till = ctx.erased_till]_vars

\* The 2056-byte firmware, which the flash did not hold before the first
\* attempt, was streamed to the end in that attempt and begun again.
C8_Witness ==
  /\ attempts = 1
  /\ pkg.sizes[FwName] = 2056
  /\ last.op = "file_begin"
  /\ last.name = FwName
  /\ last.act = MGOS_UPDATER_SKIP_FILE
  /\ ctx.fw_part.done = 1
  /\ ctx.erased_till > ctx.fw_part.addr

RoundUp4(n) == ((n + 3) \div 4) * 4

\* C10: every flash write has a byte count that is a multiple of 4; and once
\* a data call was handed the last bytes of a file whose size N is no
\* multiple of 4, the writes for the file add up to N rounded up to a
\* multiple of 4, the bytes after the file's N bytes being 0xFF.
C10_WritesAlignedAndPadded ==
  /\ \A i \in DOMAIN last.writes : last.writes[i].n % 4 = 0
  /\ (last.op = "file_data" /\ last.final /\ last.ret >= 0 /\ fi.size % 4 # 0)
       => /\ wsum = RoundUp4(fi.size)
          /\ Clip(flash, ctx[ctx.current_part].addr + fi.size,
                  RoundUp4(fi.size) - fi.size)
               = <<<<0, RoundUp4(fi.size) - fi.size, Erased>>>>

\* C11: a data call whose chunk is shorter than 2048 bytes while more than
\* 2048 bytes of the file remain returns 0, erases nothing, writes nothing and
\* leaves current_write_address and erased_till alone; a data call made when
\* at most 2048 bytes remain does not take that early return: unless the flash
\* driver fails, the flash is erased up to the end of the chunk and the
\* chunk's 4-byte-aligned prefix is written and consumed.
C11_MinBlockDeferral ==
  [][FileDataStep
     => LET len == last'.len
            remaining == fi.size - fi.processed
        IN /\ (len < UPDATER_MIN_BLOCK_SIZE /\ remaining > UPDATER_MIN_BLOCK_SIZE)
                => /\ last'.ret = 0
                   /\ last'.erases = <<>>
                   /\ last'.writes = <<>>
                   /\ flash' = flash
                   /\ fi' = fi
                   /\ ctx'.current_write_address = ctx.current_write_address
                   /\ ctx'.erased_till = ctx.erased_till
           /\ remaining <= UPDATER_MIN_BLOCK_SIZE
                => /\ ~last'.deferred
                   /\ last'.ret >= 0
                        => /\ ctx'.erased_till >= ctx.current_write_address + len
                           /\ last'.ret >= AlignDown4(len)
                           /\ len >= 4 => /\ last'.ret > 0
                                          /\ Len(last'.writes) >= 1
                                          /\ last'.writes[1].addr = ctx.current_write_address
                                          /\ last'.writes[1].n = AlignDown4(len)]_vars

\* A short chunk of the 2056-byte firmware has just been turned away.
C11_Witness ==
  /\ last.op = "file_data"
  /\ last.deferred
  /\ last.ret = 0
  /\ last.len < UPDATER_MIN_BLOCK_SIZE
  /\ fi.size - fi.processed > UPDATER_MIN_BLOCK_SIZE

\* The manifest token lacks a field fill_file_part_info requires.
TokenInvalid(tok) == ~tok.has_sha \/ tok.src = ""

\* C12: every failure inside an operation of an update attempt (a manifest
\* part or field missing, the boot configuration not loaded, a flash read,
\* erase or write failing, a digest mismatch at the end of a file, the save of
\* the boot configuration failing) makes the operation return a negative
\* result, ABORT for a file begin, with a status message set.
C12_FailuresAreSurfaced ==
  [][(/\ BeginStep \/ FileBeginStep \/ FileDataStep \/ FileEndStep \/ FinalizeStep
      /\ \/ last'.io_failed
         \/ BeginStep /\ (TokenInvalid(pkg.fw) \/ TokenInvalid(pkg.fs))
         \/ FileEndStep /\ ~Matches(flash, ctx[ctx.current_part]))
     => /\ IF FileBeginStep THEN last'.act = MGOS_UPDATER_ABORT ELSE last'.ret < 0
        /\ ctx'.status_msg # "NULL"]_vars

\* C13: every mutation finalize, commit or revert makes to the boot
\* configuration is in the store when the operation returns, so that at the
\* return of each of them the stored configuration equals the one in memory;
\* and the store only ever changes from one complete configuration to the
\* next, so that a reset finds either the value before the operation or the
\* value after it.
C13_BootConfigPersistedOnReturn ==
  [][/\ (FinalizeStep \/ CommitStep \/ RevertStep) => stored' = cfg'
     /\ stored' # stored => stored' = cfg']_vars

\* C14, as stated: in every state exactly one of current_rom and
\* previous_rom is the slot that executes, and the two fields change only by
\* being swapped: whenever one of them changes, previous_rom takes the old
\* current_rom and current_rom the old previous_rom.
C14_ExactlyOneRunningAndSwapped ==
  [][/\ (cfg'.current_rom = running') # (cfg'.previous_rom = running')
     /\ (last'.op # "reset" /\ (cfg'.current_rom # Eff.current_rom
                                 \/ cfg'.previous_rom # Eff.previous_rom))
          => /\ cfg'.previous_rom = Eff.current_rom
             /\ cfg'.current_rom = Eff.previous_rom]_vars

\* C14, amended: current_rom and previous_rom change in two ways only. A
\* finalize that switches slots gives previous_rom the old current_rom and
\* current_rom slot_to_write, after which the two differ; a revert with an
\* update pending gives current_rom the value of previous_rom and leaves
\* previous_rom, after which the two are equal. No other operation changes
\* either field, in memory or in the store.
C14_SlotsChangeBySwitchOrRevertOnly ==
  [][/\ SwitchStep
          => /\ cfg'.previous_rom = Eff.current_rom
             /\ cfg'.current_rom = ctx.slot_to_write
             /\ cfg'.current_rom # cfg'.previous_rom
     /\ (RevertStep /\ Eff.fw_updated # 0)
          => /\ cfg'.current_rom = Eff.previous_rom
             /\ cfg'.previous_rom = Eff.previous_rom
     /\ ~(SwitchStep \/ (RevertStep /\ Eff.fw_updated # 0) \/ last'.op = "reset")
          => /\ cfg'.current_rom = Eff.current_rom
             /\ cfg'.previous_rom = Eff.previous_rom
     /\ stored' \in {stored, cfg'}]_vars

\* After a finalize and a reset, a revert has just made current_rom equal to
\* previous_rom while the other slot executes.
C14_Witness ==
  /\ last.op = "revert"
  /\ last.saved = 1
  /\ cfg.current_rom = cfg.previous_rom
  /\ running # cfg.current_rom

\* C15: a begin that succeeds sets slot_to_write to 1 - current_rom and each
\* part's address to its manifest-relative address plus slot_to_write *
\* FW_SLOT_SIZE (with current_rom 0, a firmware at 0 and a filesystem at
\* 0x2000: FW_SLOT_SIZE and FW_SLOT_SIZE + 0x2000) and each part's size to the
\* manifest's; and no later operation of the attempt changes slot_to_write,
\* the addresses or the sizes.
C15_BeginAddressesParts ==
  [][/\ (BeginStep /\ last'.ret = 1)
          => /\ ctx'.slot_to_write = 1 - Eff.current_rom
             /\ ctx'.fw_part.addr = pkg.fw.addr + ctx'.slot_to_write * FW_SLOT_SIZE
             /\ ctx'.fs_part.addr = pkg.fs.addr + ctx'.slot_to_write * FW_SLOT_SIZE
             /\ ctx'.fw_part.size = pkg.fw.size
             /\ ctx'.fs_part.size = pkg.fs.size
             /\ (Eff.current_rom = 0 /\ pkg.fw.addr = 0 /\ pkg.fs.addr = 8192)
                  => /\ ctx'.fw_part.addr = 1048576
                     /\ ctx'.fs_part.addr = 1048576 + 8192
     /\ last'.op \in {"file_begin", "file_data", "file_end", "finalize", "commit", "revert"}
          => /\ ctx'.slot_to_write = ctx.slot_to_write
             /\ \A pn \in PartNames : /\ ctx'[pn].addr = ctx[pn].addr
                                      /\ ctx'[pn].size = ctx[pn].size]_vars

\* The filesystem file has just been streamed to the end at the address begin
\* gave its part in slot 1, with the manifest's size still in place.
C15_Witness ==
  /\ last.op = "file_end"
  /\ last.ret = 0
  /\ ctx.slot_to_write = 1
  /\ ctx.current_part = "fs_part"
  /\ ctx.fs_part.addr = FW_SLOT_SIZE + FsRel
  /\ ctx.fw_part.addr = FW_SLOT_SIZE + FwRel
  /\ ctx.fs_part.size = pkg.fs.size

\* C16: with no flash failure every data call consumes between 0 bytes and
\* its chunk's length, never more than remain, and a call that is handed all
\* the bytes of the file that remain consumes at least one of them; so a
\* caller that keeps resubmitting what was not consumed sees all N bytes
\* consumed, and the end of the file is reached with no trailing bytes.
C16_DataPhaseCompletes ==
  [][(FileDataStep /\ ~last'.io_failed)
     => /\ last'.ret >= 0
        /\ last'.ret <= last'.len
        /\ fi'.processed = fi.processed + last'.ret
        /\ fi'.processed <= fi.size
        /\ last'.len = fi.size - fi.processed => last'.ret > 0]_vars

\* The sector and the erase block that hold address a.
SectorAt(a) ==
  <<(a \div FLASH_SECTOR_SIZE) * FLASH_SECTOR_SIZE,
    ((a \div FLASH_SECTOR_SIZE) + 1) * FLASH_SECTOR_SIZE>>
BlockAt(a) ==
  <<(a \div FLASH_ERASE_BLOCK_SIZE) * FLASH_ERASE_BLOCK_SIZE,
    ((a \div FLASH_ERASE_BLOCK_SIZE) + 1) * FLASH_ERASE_BLOCK_SIZE>>

\* erased_till before the i-th erase of the step: the end of the erase
\* before it.
ErasedTillBefore(i) == IF i = 1 THEN ctx.erased_till ELSE last'.erases[i - 1][2]

\* C17: a data call erases only while current_write_address + the chunk's
\* length exceeds erased_till; each erase is a block erase when erased_till is
\* block-aligned and the part ends at or after erased_till + one block, and
\* otherwise the erase of the one sector that holds erased_till; after each
\* erase erased_till is the end of the erased range; and on return without
\* error current_write_address + the chunk's length is at most erased_till.
C17_ErasesAsNeeded ==
  [][(FileDataStep /\ ~last'.deferred)
     => LET cwa == ctx.current_write_address
            len == last'.len
            part == ctx[ctx.current_part]
            E == last'.erases
        IN /\ \A i \in DOMAIN E :
                LET et == ErasedTillBefore(i)
                IN /\ cwa + len > et
                   /\ IF /\ et % FLASH_ERASE_BLOCK_SIZE = 0
                         /\ part.addr + part.fi_size >= et + FLASH_ERASE_BLOCK_SIZE
                        THEN E[i] = BlockAt(et)
                        ELSE E[i] = SectorAt(et)
           /\ ctx'.erased_till = (IF E = <<>> THEN ctx.erased_till ELSE E[Len(E)][2])
           /\ last'.ret >= 0 => cwa + len <= ctx'.erased_till]_vars

\* A data call has just erased one block and then the sector behind it for a
\* part of one block and 8 bytes.
C17_Witness ==
  /\ last.op = "file_data"
  /\ last.ret > 0
  /\ Len(last.erases) = 2
  /\ last.erases[1][2] - last.erases[1][1] = FLASH_ERASE_BLOCK_SIZE
  /\ last.erases[2] = <<last.erases[1][2], last.erases[1][2] + FLASH_SECTOR_SIZE>>
  /\ ctx.erased_till = last.erases[2][2]

\* C18: between a begin that returned PROCESS and the end of the file, every
\* flash write covers a range [a, a + n) with the part's address <= a and
\* a + n <= erased_till, the writes follow one another without gap from the
\* part's address upwards, and current_write_address is the part's address
\* plus the bytes consumed so far and never exceeds erased_till.
C18_WritesWithinErased ==
  [][FileDataStep
     => LET part == ctx[ctx.current_part]
            W == last'.writes
        IN /\ \A i \in DOMAIN W :
                /\ part.addr <= W[i].addr
                /\ W[i].addr + W[i].n <= ctx'.erased_till
                /\ W[i].addr = (IF i = 1 THEN ctx.current_write_address
                                ELSE W[i - 1].addr + W[i - 1].n)
           /\ ctx.current_write_address = part.addr + fi.processed
           /\ ctx'.current_write_address = part.addr + fi'.processed
           /\ ctx'.current_write_address >= ctx.current_write_address
           /\ ctx'.current_write_address <= ctx'.erased_till]_vars

\* A second data call of a file has just written behind the first, below
\* erased_till.
C18_Witness ==
  /\ last.op = "file_data"
  /\ Len(last.writes) = 1
  /\ last.writes[1].addr > ctx[ctx.current_part].addr
  /\ last.writes[1].addr + last.writes[1].n = ctx.current_write_address
  /\ ctx.current_write_address = ctx[ctx.current_part].addr + fi.processed
  /\ ctx.current_write_address < ctx.erased_till

\* C19: while one part is streamed, from the begin that returned PROCESS
\* through the data calls that follow, erased_till never decreases and no
\* flash is erased twice: every erase lies behind all the flash the data calls
\* of the file erased before it.
C19_EraseMinimality ==
  [][FileDataStep
     => /\ ctx'.erased_till >= ctx.erased_till
        /\ \A i, j \in DOMAIN hist'.erased :
             i < j => hist'.erased[i][2] <= hist'.erased[j][1]]_vars

\* The second data call of a file has just erased the sector behind the
\* block the first one erased.
C19_Witness ==
  /\ last.op = "file_data"
  /\ Len(last.erases) = 1
  /\ Len(hist.erased) = 2
  /\ hist.erased[1][2] = hist.erased[2][1]
  /\ ctx.erased_till = hist.erased[2][2]

\* The bytes a part occupies: the manifest's size, or the size of its file
\* where that is larger.
RegionSize(part) == Max(part.size, pkg.sizes[part.file_name])

\* The firmware and filesystem regions start on sector boundaries and do not
\* overlap.
RegionsDisjoint(c) ==
  /\ c.fw_part.addr % FLASH_SECTOR_SIZE = 0
  /\ c.fs_part.addr % FLASH_SECTOR_SIZE = 0
  /\ \/ c.fw_part.addr + RegionSize(c.fw_part) <= c.fs_part.addr
     \/ c.fs_part.addr + RegionSize(c.fs_part) <= c.fw_part.addr

\* The range [lo, hi) has no byte in the part's region.
Outside(lo, hi, part) == hi <= part.addr \/ part.addr + RegionSize(part) <= lo

\* C20: with firmware and filesystem regions that start on sector boundaries
\* and do not overlap, and chunks no longer than what remains of the file, no
\* erase and no write of a data call for one part touches a byte of the other
\* part's region, whose content stays as it was; and when finalize switches
\* slots, the flash of every part marked done has the part's expected digest.
C20_OtherPartUntouched ==
  [][/\ (FileDataStep /\ RegionsDisjoint(ctx))
          => \A pn \in {"fw_part", "fs_part"} \ {ctx.current_part} :
               /\ \A i \in DOMAIN last'.erases :
                    Outside(last'.erases[i][1], last'.erases[i][2], ctx[pn])
               /\ \A i \in DOMAIN last'.writes :
                    Outside(last'.writes[i].addr,
                            last'.writes[i].addr + last'.writes[i].n, ctx[pn])
               /\ Clip(flash', ctx[pn].addr, RegionSize(ctx[pn]))
                    = Clip(flash, ctx[pn].addr, RegionSize(ctx[pn]))
     /\ (SwitchStep /\ RegionsDisjoint(ctx))
          => \A pn \in PartNames : ctx[pn].done # 0 => Matches(flash, ctx[pn])]_vars

\* With the firmware of one block and 8 bytes written and done, a data call
\* for the filesystem behind it has just erased and written, and the firmware
\* still has its digest.
C20_Witness ==
  /\ last.op = "file_data"
  /\ ctx.current_part = "fs_part"
  /\ Len(last.erases) >= 1
  /\ Len(last.writes) >= 1
  /\ ctx.fw_part.done = 1
  /\ ctx.fw_part.fi_size = BigFwSize
  /\ RegionsDisjoint(ctx)
  /\ Matches(flash, ctx.fw_part)

====
